---------------------------- MODULE Spec2Model ----------------------------
(***************************************************************************)
(* Reproduce_8K_Tearing: the command line, the window bootstrap, the       *)
(* render loop and the teardown of main(), the MeshPlane constructor and   *)
(* the 4x4 matrix chain of main.cpp.                                       *)
(*                                                                         *)
(* main.cpp holds two variants of the program (the plane variant, lines    *)
(* 1-382, and the room variant, lines 383-914).  Their command line,       *)
(* bootstrap and teardown are the same statement for statement; the room   *)
(* variant adds the matrix functions and uploads a uniform for each plane  *)
(* where the plane variant uploads one for each frame.                     *)
(***************************************************************************)
EXTENDS Integers, Sequences, FiniteSets, TLC

VARIABLES
  \* ---- main(): command line
  args,               \* argv[1..argc-1], each argument a sequence of characters
  argi,               \* the loop variable i of the argument loop
  fullScreenDisplay,  \* int
  width,              \* int
  height,             \* int
  fps,                \* double, as a decimal numeral (see stod)
  \* ---- main(): control and the windowing / graphics library state
  pc,                 \* the statement main() is at
  window,             \* "none" | "created" | "failed" | "destroyed"
  windowSize,         \* width and height glfwCreateWindow was given
  monitorCount,       \* count written by glfwGetMonitors, -1 before the call
  windowMonitor,      \* the monitors glfwSetWindowMonitor was called with, in order
  contextCurrent,     \* the window's context is current on this thread
  glewState,          \* "uninit" | "ok" | "failed"
  shaderStage,        \* number of shader build checks passed (0..3)
  errLog,             \* messages written to std::cerr, in order
  planes,             \* the MeshPlane objects: initialized, buffers, sizes
  count,              \* size_t count of the render loop
  p,                  \* index of the next plane to draw in this frame
  closePending,       \* the OS has a close request queued for the window
  shouldClose,        \* the window's close flag (glfwWindowShouldClose)
  glfwTerminated,     \* glfwTerminate() was called
  exitStatus,         \* value returned by main, -1 while none
  thrown,             \* the exception that left main uncaught, "none" if none
  glfwInitialized,    \* glfwInit() was called
  variant,            \* which of the two programs of main.cpp runs
  \* ---- main(): observation of the run (history, not program state)
  frameLog,           \* operations of the frame in progress, in order
  completeFrames,     \* frames that were cleared, fully drawn and swapped
  closeChecks,        \* evaluations of glfwWindowShouldClose so far
  closeRequestedAt,   \* where main() was when the close was requested
  \* ---- MeshPlane::MeshPlane
  mpc,                \* "idle" | "loop" | "done"
  mScale,             \* scale
  mNumTriangles,      \* numTriangles
  mColor,             \* color, three components
  mQ,                 \* numQuadsPerEdge
  mI,                 \* outer loop variable i
  mJ,                 \* inner loop variable j
  mRands,             \* the values rand() returned, in order
  vertexBufferData,   \* std::vector<GLfloat>
  colorBufferData,    \* std::vector<GLfloat>
  \* ---- multiplyMatrices(const std::vector<float*>&, float result[16])
  cpc,                \* "idle" | "copy" | "loop" | "done"
  matrices,           \* the matrices the pointers of the vector point to
  matrices0,          \* the same matrices at the time of the call
  result,             \* float result[16]
  chainI,             \* loop variable i of the chain
  \* ---- createProjectionMatrix(fieldOfView, aspectRatio, nearPlane, farPlane, result)
  ppc,                \* "idle" | "call" | "done"
  projArgs,           \* the four float arguments
  projection          \* float result[16]

mainVars == <<args, argi, fullScreenDisplay, width, height, fps, pc, window,
              monitorCount, windowMonitor, contextCurrent, glewState,
              shaderStage, errLog, planes, count, p, closePending,
              shouldClose, glfwTerminated, exitStatus, thrown, frameLog,
              completeFrames, closeChecks, windowSize, closeRequestedAt,
              glfwInitialized, variant>>
meshVars == <<mpc, mScale, mNumTriangles, mColor, mQ, mI, mJ, mRands,
              vertexBufferData, colorBufferData>>
matVars == <<cpc, matrices, matrices0, result, chainI>>
projVars == <<ppc, projArgs, projection>>
vars == <<mainVars, meshVars, matVars, projVars>>

(***************************************************************************)
(* Bounds of the model.                                                    *)
(***************************************************************************)
\* longest command line explored exhaustively (SpecArgs)
MaxArgs == 4
\* most draw() calls on one MeshPlane of SpecObject
MaxDraws == 3
\* most monitors glfwGetMonitors reports
MaxMonitors == 2
\* the model's size_t has SizeBits bits (the program's has 64 or 32)
SizeBits == 2
\* largest numTriangles handed to the MeshPlane constructor (SpecMesh)
MaxTriangles == 19
\* the model's RAND_MAX: rand() returns 0..RandMax
RandMax == 1
\* significant bits of the model's float (the program's float has 24)
MantBits == 3

(***************************************************************************)
(* Characters and numerals.                                                *)
(***************************************************************************)
Digits == {"0", "1", "2", "3", "4", "5", "6", "7", "8", "9"}

DigitVal(c) ==
  CASE c = "0" -> 0 [] c = "1" -> 1 [] c = "2" -> 2 [] c = "3" -> 3
    [] c = "4" -> 4 [] c = "5" -> 5 [] c = "6" -> 6 [] c = "7" -> 7
    [] c = "8" -> 8 [] c = "9" -> 9

\* std::isspace in the "C" locale, over the characters used here
IsSpace(c) == c \in {" ", "\t"}

\* int is 32 bits wide
INT_MAX == 2147483647

\* the sequence s from position k on
Drop(s, k) == SubSeq(s, k, Len(s))

\* number of leading characters of s that satisfy the test
RECURSIVE LeadingSpaces(_)
LeadingSpaces(s) ==
  IF s # <<>> /\ IsSpace(Head(s)) THEN 1 + LeadingSpaces(Tail(s)) ELSE 0

RECURSIVE LeadingDigits(_)
LeadingDigits(s) ==
  IF s # <<>> /\ Head(s) \in Digits THEN 1 + LeadingDigits(Tail(s)) ELSE 0

\* magnitude of a digit string, or -1 once it exceeds limit
RECURSIVE Magnitude(_, _, _)
Magnitude(ds, acc, limit) ==
  IF ds = <<>> THEN acc
  ELSE LET d == DigitVal(Head(ds))
       IN  IF acc > (limit - d) \div 10 THEN -1
           ELSE Magnitude(Tail(ds), 10 * acc + d, limit)

(***************************************************************************)
(* std::stoi(const std::string&): strtol in base 10 on the whole string;   *)
(* leading white space is skipped, one sign is accepted, the longest run   *)
(* of digits is converted and what follows it is ignored.  No digit:       *)
(* std::invalid_argument.  Outside int: std::out_of_range (the magnitude   *)
(* is held to INT_MAX; -INT_MAX - 1 is not among the arguments used).      *)
(***************************************************************************)
stoi(s) ==
  LET t    == Drop(s, LeadingSpaces(s) + 1)
      neg  == t # <<>> /\ Head(t) = "-"
      sgn  == t # <<>> /\ Head(t) \in {"-", "+"}
      u    == IF sgn THEN Tail(t) ELSE t
      n    == LeadingDigits(u)
      mag  == Magnitude(SubSeq(u, 1, n), 0, INT_MAX)
  IN  IF n = 0 THEN [ok |-> FALSE, err |-> "invalid_argument", val |-> 0]
      ELSE IF mag = -1 THEN [ok |-> FALSE, err |-> "out_of_range", val |-> 0]
      ELSE [ok |-> TRUE, err |-> "none", val |-> IF neg THEN -mag ELSE mag]

RECURSIVE StripLeadingZeros(_)
StripLeadingZeros(ds) ==
  IF ds # <<>> /\ Head(ds) = "0" THEN StripLeadingZeros(Tail(ds)) ELSE ds

RECURSIVE StripTrailingZeros(_)
StripTrailingZeros(ds) ==
  IF ds # <<>> /\ ds[Len(ds)] = "0"
  THEN StripTrailingZeros(SubSeq(ds, 1, Len(ds) - 1)) ELSE ds

\* a double that is a decimal numeral: sign, integer digits without leading
\* zeros, fraction digits without trailing zeros
Decimal(neg, int, frac) ==
  LET i == StripLeadingZeros(int)
      f == StripTrailingZeros(frac)
  IN  [neg |-> neg /\ (i # <<>> \/ f # <<>>), int |-> i, frac |-> f]

(***************************************************************************)
(* std::stod(const std::string&): strtod on the whole string, for decimal  *)
(* numerals without exponent: white space, sign, digits, '.', digits; at   *)
(* least one digit is needed, what follows the numeral is ignored.         *)
(***************************************************************************)
stod(s) ==
  LET t    == Drop(s, LeadingSpaces(s) + 1)
      neg  == t # <<>> /\ Head(t) = "-"
      sgn  == t # <<>> /\ Head(t) \in {"-", "+"}
      u    == IF sgn THEN Tail(t) ELSE t
      n    == LeadingDigits(u)
      rest == Drop(u, n + 1)
      dot  == rest # <<>> /\ Head(rest) = "."
      m    == IF dot THEN LeadingDigits(Tail(rest)) ELSE 0
      frac == IF dot THEN SubSeq(Tail(rest), 1, m) ELSE <<>>
  IN  IF n + m = 0
      THEN [ok |-> FALSE, err |-> "invalid_argument",
            val |-> Decimal(FALSE, <<>>, <<>>)]
      ELSE [ok |-> TRUE, err |-> "none",
            val |-> Decimal(neg, SubSeq(u, 1, n), frac)]

(***************************************************************************)
(* The command line of main().                                             *)
(***************************************************************************)
FlagFullScreenDisplay ==
  <<"-", "-", "f", "u", "l", "l", "S", "c", "r", "e", "e", "n", "D", "i", "s", "p", "l", "a", "y">>
FlagWidth == <<"-", "-", "w", "i", "d", "t", "h">>
FlagHeight == <<"-", "-", "h", "e", "i", "g", "h", "t">>
FlagFps == <<"-", "-", "f", "p", "s">>
Flags == {FlagFullScreenDisplay, FlagWidth, FlagHeight, FlagFps}

\* arguments that are no flag
ArgMinus1 == <<"-", "1">>
ArgZero == <<"0">>
ArgOne == <<"1">>
ArgFive == <<"5">>
Arg800 == <<"8", "0", "0">>
Arg600 == <<"6", "0", "0">>
Arg60 == <<"6", "0">>
ArgPadded == <<" ", "0", "7", ".", "5", "0", "x">>
ArgWord == <<"a", "b", "c">>
ArgHuge == <<"3", "0", "0", "0", "0", "0", "0", "0", "0", "0">>

\* the arguments of the exhaustive command lines
Tokens == Flags \cup {ArgMinus1, ArgFive, ArgPadded, ArgWord, ArgHuge}

\* all sequences over S of length at most n
SeqUpTo(S, n) == UNION {[1..k -> S] : k \in 0..n}

\* the variables of main() that hold the configuration
Config == [fullScreenDisplay |-> fullScreenDisplay, width |-> width,
           height |-> height, fps |-> fps]

\* main.cpp:195-198
DefaultConfig == [fullScreenDisplay |-> 1, width |-> 7680, height |-> 4320,
                  fps |-> Decimal(FALSE, <<"6", "0">>, <<"0">>)]

\* a bound check that is off by one: i + 2 < argc
HasFollowing_Strict(i, a) == i + 2 <= Len(a)

\* i + 1 < argc, with argc = Len(a) + 1 (main.cpp:202, 204, 206, 208)
HasFollowing(i, a) == i + 1 <= Len(a)

\* the branch of the if-else chain that argument i takes (main.cpp:202-210)
Branch(i, a) ==
  IF a[i] = FlagFullScreenDisplay /\ HasFollowing(i, a) THEN "fullScreenDisplay"
  ELSE IF a[i] = FlagWidth /\ HasFollowing(i, a) THEN "width"
  ELSE IF a[i] = FlagHeight /\ HasFollowing(i, a) THEN "height"
  ELSE IF a[i] = FlagFps /\ HasFollowing(i, a) THEN "fps"
  ELSE "none"

\* a conversion that yields 0 where std::stoi and std::stod throw
Convert_Lenient(branch, s) ==
  LET r == IF branch = "fps" THEN stod(s) ELSE stoi(s)
  IN  IF r.ok THEN r
      ELSE [ok |-> TRUE, err |-> "none",
            val |-> IF branch = "fps" THEN stod(ArgZero).val ELSE 0]

\* the conversion a branch applies to argv[++i]
Convert(branch, s) == IF branch = "fps" THEN stod(s) ELSE stoi(s)

\* the configuration after a successful conversion in a branch
Assign(cfg, branch, v) == [cfg EXCEPT ![branch] = v]

(***************************************************************************)
(* One iteration of the argument loop (main.cpp:200-211).  A failed        *)
(* conversion throws; nothing catches it, so the process terminates.       *)
(***************************************************************************)
ParseArg ==
  /\ pc = "parse"
  /\ argi <= Len(args)
  /\ LET b == Branch(argi, args)
     IN  IF b = "none"
         THEN /\ argi' = argi + 1
              /\ UNCHANGED <<fullScreenDisplay, width, height, fps, pc, thrown>>
         ELSE LET r == Convert(b, args[argi + 1])
              IN  IF r.ok
                  THEN LET c == Assign(Config, b, r.val)
                       IN  /\ fullScreenDisplay' = c.fullScreenDisplay
                           /\ width' = c.width
                           /\ height' = c.height
                           /\ fps' = c.fps
                           /\ argi' = argi + 2
                           /\ UNCHANGED <<pc, thrown>>
                  ELSE /\ thrown' = r.err
                       /\ pc' = "terminated"
                       /\ argi' = argi + 1
                       /\ UNCHANGED <<fullScreenDisplay, width, height, fps>>
  /\ UNCHANGED <<args, window, monitorCount, windowMonitor, contextCurrent,
                 glewState, shaderStage, errLog, planes, count, p,
                 closePending, shouldClose, glfwTerminated, exitStatus,
                 frameLog, completeFrames, closeChecks>>
  /\ UNCHANGED <<windowSize, closeRequestedAt, glfwInitialized, variant,
                 meshVars, matVars, projVars>>

\* the loop ends; the display is echoed, glfwInit and the window hint follow
\* (main.cpp:200, 213-218)
ParseEnd ==
  /\ pc = "parse"
  /\ argi > Len(args)
  /\ pc' = "createWindow"
  /\ UNCHANGED <<args, argi, fullScreenDisplay, width, height, fps, window,
                 monitorCount, windowMonitor, contextCurrent, glewState,
                 shaderStage, errLog, planes, count, p, closePending,
                 shouldClose, glfwTerminated, exitStatus, thrown, frameLog,
                 completeFrames, closeChecks>>
  /\ glfwInitialized' = TRUE
  /\ UNCHANGED <<windowSize, closeRequestedAt, variant, meshVars, matVars, projVars>>

cfgVars == <<args, argi, fullScreenDisplay, width, height, fps>>
loopVars == <<count, p, frameLog, completeFrames, closeChecks>>

(***************************************************************************)
(* Window and context bootstrap (main.cpp:226-267 and 727-768).            *)
(***************************************************************************)
\* glfwCreateWindow and the check of its result (main.cpp:226-234)
CreateWindow ==
  /\ pc = "createWindow"
  /\ \E ok \in BOOLEAN :
       IF ok
       THEN /\ window' = "created"
            /\ windowSize' = <<width, height>>
            /\ pc' = "selectMonitor"
            /\ UNCHANGED <<errLog, exitStatus>>
       ELSE /\ window' = "failed"
            /\ errLog' = Append(errLog, "Failed to create GLFW window")
            /\ exitStatus' = 1
            /\ pc' = "exited"
            /\ UNCHANGED windowSize
  /\ UNCHANGED <<cfgVars, loopVars, monitorCount, windowMonitor,
                 contextCurrent, glewState, shaderStage, planes, closePending,
                 shouldClose, glfwTerminated, thrown>>
  /\ UNCHANGED <<closeRequestedAt, glfwInitialized, variant,
                 meshVars, matVars, projVars>>

\* the comparison off by one
FullScreenSelected_OffByOne(d) == d >= -1

\* if (fullScreenDisplay >= 0) (main.cpp:238, 253)
FullScreenSelected(d) == d >= 0

\* the outcome of the monitor checks for a request d >= 0 and n monitors:
\* the status returned, or -1 to go on (main.cpp:241-248)
MonitorCheck(d, n) ==
  IF n = 0 THEN 2
  ELSE IF d >= n THEN 3
  ELSE -1

\* Determine the full-screen monitor to use, if any (main.cpp:236-250).
\* glfwGetMonitors returns a null array exactly when it reports no monitor.
SelectMonitor ==
  /\ pc = "selectMonitor"
  /\ IF FullScreenSelected(fullScreenDisplay)
     THEN \E n \in 0..MaxMonitors :
            /\ monitorCount' = n
            /\ LET st == MonitorCheck(fullScreenDisplay, n)
               IN  IF st = -1
                   THEN /\ pc' = "setMonitor"
                        /\ UNCHANGED <<errLog, exitStatus>>
                   ELSE /\ errLog' = Append(errLog,
                              IF st = 2 THEN "No monitors for fullscreen"
                              ELSE "Invalid monitor requested (index larger than available monitors)")
                        /\ exitStatus' = st
                        /\ pc' = "exited"
     ELSE /\ pc' = "setMonitor"
          /\ UNCHANGED <<monitorCount, errLog, exitStatus>>
  /\ UNCHANGED <<cfgVars, loopVars, window, windowMonitor, contextCurrent,
                 glewState, shaderStage, planes, closePending, shouldClose,
                 glfwTerminated, thrown>>
  /\ UNCHANGED <<windowSize, closeRequestedAt, glfwInitialized, variant,
                 meshVars, matVars, projVars>>

\* glfwSetWindowMonitor when full screen is selected (main.cpp:252-255);
\* fullScreenMonitor is monitors[fullScreenDisplay]
SetWindowMonitor ==
  /\ pc = "setMonitor"
  /\ windowMonitor' = IF FullScreenSelected(fullScreenDisplay)
                      THEN Append(windowMonitor, fullScreenDisplay)
                      ELSE windowMonitor
  /\ pc' = "makeCurrent"
  /\ UNCHANGED <<cfgVars, loopVars, window, monitorCount, contextCurrent,
                 glewState, shaderStage, errLog, planes, closePending,
                 shouldClose, glfwTerminated, exitStatus, thrown>>
  /\ UNCHANGED <<windowSize, closeRequestedAt, glfwInitialized, variant,
                 meshVars, matVars, projVars>>

\* a bootstrap that does not make the window's context current
MakeContextCurrent_Skipped ==
  /\ pc = "makeCurrent"
  /\ contextCurrent' = FALSE
  /\ pc' = "glewInit"
  /\ UNCHANGED <<cfgVars, loopVars, window, monitorCount, windowMonitor,
                 glewState, shaderStage, errLog, planes, closePending,
                 shouldClose, glfwTerminated, exitStatus, thrown>>
  /\ UNCHANGED <<windowSize, closeRequestedAt, glfwInitialized, variant,
                 meshVars, matVars, projVars>>

\* glfwMakeContextCurrent(m_window) (main.cpp:257-258)
MakeContextCurrent ==
  /\ pc = "makeCurrent"
  /\ contextCurrent' = TRUE
  /\ pc' = "glewInit"
  /\ UNCHANGED <<cfgVars, loopVars, window, monitorCount, windowMonitor,
                 glewState, shaderStage, errLog, planes, closePending,
                 shouldClose, glfwTerminated, exitStatus, thrown>>
  /\ UNCHANGED <<windowSize, closeRequestedAt, glfwInitialized, variant,
                 meshVars, matVars, projVars>>

\* glewInit and the check of its result (main.cpp:260-267)
GlewInit ==
  /\ pc = "glewInit"
  /\ \E ok \in BOOLEAN :
       IF ok
       THEN /\ glewState' = "ok"
            /\ pc' = "shaders"
            /\ UNCHANGED <<errLog, exitStatus>>
       ELSE /\ glewState' = "failed"
            /\ errLog' = Append(errLog, "Failed to initialize GLEW")
            /\ exitStatus' = 4
            /\ pc' = "exited"
  /\ UNCHANGED <<cfgVars, loopVars, window, monitorCount, windowMonitor,
                 contextCurrent, shaderStage, planes, closePending,
                 shouldClose, glfwTerminated, thrown>>
  /\ UNCHANGED <<windowSize, closeRequestedAt, glfwInitialized, variant,
                 meshVars, matVars, projVars>>

(***************************************************************************)
(* Shader program setup (main.cpp:272-300): the vertex shader, the         *)
(* fragment shader and the link, each followed by its check.  A failed     *)
(* check writes the driver's log to std::cerr and throws                   *)
(* std::runtime_error (main.cpp:35-59), which nothing catches.             *)
(***************************************************************************)
ShaderMessage(stage) ==
  CASE stage = 0 -> "Vertex shader compilation failed."
    [] stage = 1 -> "Fragment shader compilation failed."
    [] stage = 2 -> "Shader program link failed."

\* shader setup whose checks write the log of a failure and return
BuildShader_NoThrow ==
  /\ pc = "shaders"
  /\ \E ok \in BOOLEAN :
       /\ shaderStage' = shaderStage + 1
       /\ pc' = IF shaderStage + 1 = 3 THEN "makePlanes" ELSE "shaders"
       /\ errLog' = IF ok THEN errLog ELSE Append(errLog, "driver log")
       /\ UNCHANGED thrown
  /\ UNCHANGED <<cfgVars, loopVars, window, monitorCount, windowMonitor,
                 contextCurrent, glewState, planes, closePending,
                 shouldClose, glfwTerminated, exitStatus>>
  /\ UNCHANGED <<windowSize, closeRequestedAt, glfwInitialized, variant,
                 meshVars, matVars, projVars>>

BuildShader ==
  /\ pc = "shaders"
  /\ \E ok \in BOOLEAN :
       IF ok
       THEN /\ shaderStage' = shaderStage + 1
            /\ pc' = IF shaderStage + 1 = 3 THEN "makePlanes" ELSE "shaders"
            /\ UNCHANGED <<errLog, thrown>>
       ELSE /\ errLog' = Append(errLog, "driver log")
            /\ thrown' = ShaderMessage(shaderStage)
            /\ pc' = "terminated"
            /\ UNCHANGED shaderStage
  /\ UNCHANGED <<cfgVars, loopVars, window, monitorCount, windowMonitor,
                 contextCurrent, glewState, planes, closePending,
                 shouldClose, glfwTerminated, exitStatus>>
  /\ UNCHANGED <<windowSize, closeRequestedAt, glfwInitialized, variant,
                 meshVars, matVars, projVars>>

(***************************************************************************)
(* MeshPlane::MeshPlane (main.cpp:66-123 and 448-505).                     *)
(*                                                                         *)
(* A GLfloat is kept as an exact fraction [n, d]; the rounding of the      *)
(* float arithmetic of the constructor is not modelled.                    *)
(***************************************************************************)
\* static_cast<size_t>(sqrt(n)): the double square root, truncated; exact
\* for every n below 2^52
RECURSIVE SqrtFloorFrom(_, _)
SqrtFloorFrom(n, r) ==
  IF (r + 1) * (r + 1) > n THEN r ELSE SqrtFloorFrom(n, r + 1)

\* the square root rounded to the nearest integer instead of truncated
SqrtFloor_Nearest(n) ==
  LET r == SqrtFloorFrom(n, 0)
  IN  IF n - r * r > (r + 1) * (r + 1) - n THEN r + 1 ELSE r

SqrtFloor(n) == SqrtFloorFrom(n, 0)

\* the division by two forgotten
NumQuads_NoHalf(numTriangles) == numTriangles

\* size_t numQuads = numTriangles / 2 (main.cpp:69)
NumQuads(numTriangles) == numTriangles \div 2

\* numQuadsPerEdge, with its minimum of 1 (main.cpp:70-71)
NumQuadsPerEdge(numTriangles) ==
  LET e == SqrtFloor(NumQuads(numTriangles))
  IN  IF e < 1 THEN 1 ELSE e

Frac(n, d) == [n |-> n, d |-> d]

\* rand() * 1.0f / RAND_MAX, without the offset of 0.5
Brightness_NoOffset(r) == Frac(r, RandMax)

\* 0.5f + rand() * 0.5f / RAND_MAX for rand() = r (main.cpp:80)
Brightness(r) == Frac(RandMax + r, 2 * RandMax)

\* brightness * color[i]; a colour component is given in halves
Shade(b, c) == Frac(b.n * c, b.d * 2)

\* the colour floats of one quad: numTris * numVerts vertices, numColors
\* components each (main.cpp:81-88)
QuadColors(b, color) ==
  [k \in 1..(2 * 3 * 3) |-> Shade(b, color[((k - 1) % 3) + 1])]

\* -scale + k * scale / numQuadsPerEdge: a step of half the width
Edge_HalfStep(scale, k, q) == Frac(k * scale - scale * q, q)

\* -scale + k * (2 * scale) / numQuadsPerEdge (main.cpp:94-97)
Edge(scale, k, q) == Frac(k * (2 * scale) - scale * q, q)

\* the position floats of quad (i, j) (main.cpp:93-120)
QuadVertices(scale, i, j, q) ==
  LET Z    == Frac(0, 1)
      minX == Edge(scale, i, q)
      maxX == Edge(scale, i + 1, q)
      minY == Edge(scale, j, q)
      maxY == Edge(scale, j + 1, q)
  IN  << minX, maxY, Z,   minX, minY, Z,   maxX, minY, Z,
         maxX, maxY, Z,   minX, maxY, Z,   maxX, minY, Z >>

\* the constructor is entered: numQuadsPerEdge is computed (main.cpp:69-71)
MeshBegin ==
  /\ mpc = "start"
  /\ mQ' = NumQuadsPerEdge(mNumTriangles)
  /\ mI' = 0
  /\ mJ' = 0
  /\ mpc' = "loop"
  /\ UNCHANGED <<mScale, mNumTriangles, mColor, mRands, vertexBufferData,
                 colorBufferData>>
  /\ UNCHANGED <<mainVars, matVars, projVars>>

\* one iteration of the inner loop: one quad (main.cpp:76-121)
MeshQuad ==
  /\ mpc = "loop"
  /\ mI < mQ
  /\ \E r \in 0..RandMax :
       /\ mRands' = Append(mRands, r)
       /\ colorBufferData' = colorBufferData \o QuadColors(Brightness(r), mColor)
  /\ vertexBufferData' = vertexBufferData \o QuadVertices(mScale, mI, mJ, mQ)
  /\ IF mJ + 1 < mQ
     THEN mJ' = mJ + 1 /\ mI' = mI
     ELSE mJ' = 0 /\ mI' = mI + 1
  /\ UNCHANGED <<mpc, mScale, mNumTriangles, mColor, mQ>>
  /\ UNCHANGED <<mainVars, matVars, projVars>>

\* the outer loop ends and the constructor returns (main.cpp:75, 123)
MeshEnd ==
  /\ mpc = "loop"
  /\ mI >= mQ
  /\ mpc' = "done"
  /\ UNCHANGED <<mScale, mNumTriangles, mColor, mQ, mI, mJ, mRands,
                 vertexBufferData, colorBufferData>>
  /\ UNCHANGED <<mainVars, matVars, projVars>>

\* the sizes of the two vectors the constructor leaves: one push of
\* 2 * 3 * 3 floats to each per quad
MeshFloats(numTriangles) ==
  LET q == NumQuadsPerEdge(numTriangles) IN q * q * (2 * 3 * 3)

(***************************************************************************)
(* The geometry objects of main() (main.cpp:305-326 and 809-846).          *)
(***************************************************************************)
NX == 7
NY == 3
\* quadsPerEdge (main.cpp:306)
QuadsPerEdge == 10
\* numTriangles = trianglesPerSide * 6 (main.cpp:307-309)
NumTrianglesMain == (2 * QuadsPerEdge * QuadsPerEdge) * 6

\* a MeshPlane as constructed: not initialized, no buffer, its two vectors
\* filled (main.cpp:185-189)
NewMeshPlane(numTriangles) ==
  [initialized |-> FALSE,
   vertexFloats |-> MeshFloats(numTriangles),
   colorFloats |-> MeshFloats(numTriangles),
   buffersCreated |-> 0,
   bufferUploads |-> 0,
   drawsBeforeInit |-> -1,
   vertexUploaded |-> 0,
   colorUploaded |-> 0,
   buffersDeleted |-> 0,
   drawCalls |-> 0,
   lastDrawCount |-> 0,
   destroyed |-> FALSE]

MakePlanes ==
  /\ pc = "makePlanes"
  /\ planes' = [k \in 1..(NX * NY) |-> NewMeshPlane(NumTrianglesMain)]
  /\ count' = 0
  /\ pc' = "loopTest"
  /\ UNCHANGED <<cfgVars, p, frameLog, completeFrames, closeChecks, window,
                 monitorCount, windowMonitor, contextCurrent, glewState,
                 shaderStage, errLog, closePending, shouldClose,
                 glfwTerminated, exitStatus, thrown>>
  /\ UNCHANGED <<windowSize, closeRequestedAt, glfwInitialized, variant,
                 meshVars, matVars, projVars>>

(***************************************************************************)
(* The render loop (main.cpp:331-366 and 856-898).                         *)
(***************************************************************************)
\* size_t arithmetic is modulo 2^SizeBits
SizeModulus == 2 ^ SizeBits

\* ++count on a size_t
Increment(c) == (c + 1) % SizeModulus

\* the loop condition while (++count): the value of count after it, and
\* whether the body is entered (main.cpp:336, 861)
LoopEnters(c) == Increment(c) # 0

Op(name, k) == [op |-> name, k |-> k]

LoopTest ==
  /\ pc = "loopTest"
  /\ count' = Increment(count)
  /\ IF LoopEnters(count)
     THEN pc' = "clear" /\ frameLog' = <<>>
     ELSE pc' = "report" /\ UNCHANGED frameLog
  /\ UNCHANGED <<cfgVars, p, completeFrames, closeChecks, window,
                 monitorCount, windowMonitor, contextCurrent, glewState,
                 shaderStage, errLog, planes, closePending, shouldClose,
                 glfwTerminated, exitStatus, thrown>>
  /\ UNCHANGED <<windowSize, closeRequestedAt, glfwInitialized, variant,
                 meshVars, matVars, projVars>>

\* what follows the clear before the loop over the planes: the plane
\* variant uploads its one view-projection uniform here (main.cpp:342-349),
\* the room variant only computes the view matrix (main.cpp:867-875)
AfterClear(v) == IF v = "plane" THEN <<Op("uniform", 0)>> ELSE <<>>

\* a loop over the planes that draws a plane before its uniform is set
PlaneOps_DrawFirst(v, k) ==
  IF v = "plane" THEN <<Op("draw", k)>>
  ELSE <<Op("draw", k), Op("uniform", k)>>

\* the operations of one plane inside the loop over the planes: the plane
\* variant draws it (main.cpp:350-352), the room variant uploads the
\* plane's own uniform and then draws it (main.cpp:879-884)
PlaneOps(v, k) ==
  IF v = "plane" THEN <<Op("draw", k)>>
  ELSE <<Op("uniform", k), Op("draw", k)>>

\* glClearColor, glClear and what follows them (main.cpp:338-349, 863-875)
Clear ==
  /\ pc = "clear"
  /\ frameLog' = Append(frameLog, Op("clear", 0)) \o AfterClear(variant)
  /\ p' = 0
  /\ pc' = "draw"
  /\ UNCHANGED <<cfgVars, count, completeFrames, closeChecks, window,
                 monitorCount, windowMonitor, contextCurrent, glewState,
                 shaderStage, errLog, planes, closePending, shouldClose,
                 glfwTerminated, exitStatus, thrown>>
  /\ UNCHANGED <<windowSize, closeRequestedAt, glfwInitialized, variant,
                 meshVars, matVars, projVars>>

\* an init() that does not test initialized
MeshInit_Always(m) ==
  [m EXCEPT !.buffersCreated = m.buffersCreated + 2,
            !.bufferUploads = m.bufferUploads + 2,
            !.drawsBeforeInit = m.drawCalls,
            !.vertexUploaded = m.vertexFloats,
            !.colorUploaded = m.colorFloats,
            !.initialized = TRUE]

\* MeshPlane::init (main.cpp:132-155): the two buffers are generated and
\* filled unless the object is initialized; drawsBeforeInit is the number
\* of glDrawArrays calls of the object that came before
MeshInit(m) ==
  IF m.initialized THEN m
  ELSE [m EXCEPT !.buffersCreated = m.buffersCreated + 2,
                 !.bufferUploads = m.bufferUploads + 2,
                 !.drawsBeforeInit = m.drawCalls,
                 !.vertexUploaded = m.vertexFloats,
                 !.colorUploaded = m.colorFloats,
                 !.initialized = TRUE]

\* the count handed to glDrawArrays (main.cpp:179, 561)
DrawCount(m) == m.vertexFloats

\* MeshPlane::draw (main.cpp:157-180)
MeshDraw(m) ==
  LET n == MeshInit(m)
  IN  [n EXCEPT !.drawCalls = n.drawCalls + 1,
                !.lastDrawCount = DrawCount(n)]

\* one plane of the frame (main.cpp:350-352, 879-884)
DrawPlane ==
  /\ pc = "draw"
  /\ p < Len(planes)
  /\ planes' = [planes EXCEPT ![p + 1] = MeshDraw(planes[p + 1])]
  /\ frameLog' = frameLog \o PlaneOps(variant, p + 1)
  /\ p' = p + 1
  /\ UNCHANGED <<cfgVars, count, completeFrames, closeChecks, pc, window,
                 monitorCount, windowMonitor, contextCurrent, glewState,
                 shaderStage, errLog, closePending, shouldClose,
                 glfwTerminated, exitStatus, thrown>>
  /\ UNCHANGED <<windowSize, closeRequestedAt, glfwInitialized, variant,
                 meshVars, matVars, projVars>>

\* the operations of the planes 1..n, in the order of the loop over them
RECURSIVE PlanesOps(_, _)
PlanesOps(v, n) ==
  IF n = 0 THEN <<>> ELSE PlanesOps(v, n - 1) \o PlaneOps(v, n)

\* the frame so far is a clear followed by the drawing of every plane
FrameDrawn(log, n) ==
  log = <<Op("clear", 0)>> \o AfterClear(variant) \o PlanesOps(variant, n)

\* glfwSwapBuffers (main.cpp:355, 887)
SwapBuffers ==
  /\ pc = "draw"
  /\ p >= Len(planes)
  /\ completeFrames' = IF FrameDrawn(frameLog, Len(planes))
                       THEN completeFrames + 1 ELSE completeFrames
  /\ frameLog' = Append(frameLog, Op("swap", 0))
  /\ pc' = "finish"
  /\ UNCHANGED <<cfgVars, count, p, closeChecks, window, monitorCount,
                 windowMonitor, contextCurrent, glewState, shaderStage,
                 errLog, planes, closePending, shouldClose, glfwTerminated,
                 exitStatus, thrown>>
  /\ UNCHANGED <<windowSize, closeRequestedAt, glfwInitialized, variant,
                 meshVars, matVars, projVars>>

\* glFinish (main.cpp:356, 888)
Finish ==
  /\ pc = "finish"
  /\ frameLog' = Append(frameLog, Op("finish", 0))
  /\ pc' = "poll"
  /\ UNCHANGED <<cfgVars, count, p, completeFrames, closeChecks, window,
                 monitorCount, windowMonitor, contextCurrent, glewState,
                 shaderStage, errLog, planes, closePending, shouldClose,
                 glfwTerminated, exitStatus, thrown>>
  /\ UNCHANGED <<windowSize, closeRequestedAt, glfwInitialized, variant,
                 meshVars, matVars, projVars>>

\* glfwPollEvents: a queued close request sets the window's close flag
\* (main.cpp:359, 891)
PollEvents ==
  /\ pc = "poll"
  /\ shouldClose' = (shouldClose \/ closePending)
  /\ closePending' = FALSE
  /\ frameLog' = Append(frameLog, Op("poll", 0))
  /\ pc' = "checkClose"
  /\ UNCHANGED <<cfgVars, count, p, completeFrames, closeChecks, window,
                 monitorCount, windowMonitor, contextCurrent, glewState,
                 shaderStage, errLog, planes, glfwTerminated, exitStatus,
                 thrown>>
  /\ UNCHANGED <<windowSize, closeRequestedAt, glfwInitialized, variant,
                 meshVars, matVars, projVars>>

\* where the loop goes after the close check at the end of its body
\* (main.cpp:362-366, 894-898)
AfterCheck(closing) == IF closing THEN "report" ELSE "loopTest"

CheckClose ==
  /\ pc = "checkClose"
  /\ closeChecks' = closeChecks + 1
  /\ frameLog' = Append(frameLog, Op("check", 0))
  /\ pc' = AfterCheck(shouldClose)
  /\ UNCHANGED <<cfgVars, count, p, completeFrames, window, monitorCount,
                 windowMonitor, contextCurrent, glewState, shaderStage,
                 errLog, planes, closePending, shouldClose, glfwTerminated,
                 exitStatus, thrown>>
  /\ UNCHANGED <<windowSize, closeRequestedAt, glfwInitialized, variant,
                 meshVars, matVars, projVars>>

\* the user asks the window to close; the request waits for the next poll
RequestClose ==
  /\ window = "created"
  /\ pc \notin {"exited", "terminated"}
  /\ ~closePending
  /\ ~shouldClose
  /\ closePending' = TRUE
  /\ closeRequestedAt' = pc
  /\ UNCHANGED <<cfgVars, loopVars, pc, window, monitorCount, windowMonitor,
                 contextCurrent, glewState, shaderStage, errLog, planes,
                 shouldClose, glfwTerminated, exitStatus, thrown>>
  /\ UNCHANGED <<windowSize, glfwInitialized, variant,
                 meshVars, matVars, projVars>>

(***************************************************************************)
(* Report and teardown (main.cpp:368-381 and 900-913).                     *)
(***************************************************************************)
\* elapsed time and frames per second are printed (main.cpp:368-371)
Report ==
  /\ pc = "report"
  /\ pc' = "clearPlanes"
  /\ UNCHANGED <<cfgVars, loopVars, window, monitorCount, windowMonitor,
                 contextCurrent, glewState, shaderStage, errLog, planes,
                 closePending, shouldClose, glfwTerminated, exitStatus,
                 thrown>>
  /\ UNCHANGED <<windowSize, closeRequestedAt, glfwInitialized, variant,
                 meshVars, matVars, projVars>>

\* MeshPlane::~MeshPlane (main.cpp:125-130)
MeshDestroy(m) ==
  [m EXCEPT !.buffersDeleted = IF m.initialized THEN m.buffersDeleted + 2
                               ELSE m.buffersDeleted,
            !.destroyed = TRUE]

\* planes.clear() (main.cpp:376, 908)
ClearPlanes ==
  /\ pc = "clearPlanes"
  /\ planes' = [k \in DOMAIN planes |-> MeshDestroy(planes[k])]
  /\ pc' = "releaseContext"
  /\ UNCHANGED <<cfgVars, loopVars, window, monitorCount, windowMonitor,
                 contextCurrent, glewState, shaderStage, errLog,
                 closePending, shouldClose, glfwTerminated, exitStatus,
                 thrown>>
  /\ UNCHANGED <<windowSize, closeRequestedAt, glfwInitialized, variant,
                 meshVars, matVars, projVars>>

\* MeshPlane objects on their own: draw() is called on one of them
\* (main.cpp:157-180)
ObjectDraw ==
  /\ pc = "object"
  /\ \E k \in DOMAIN planes :
       /\ ~planes[k].destroyed
       /\ planes[k].drawCalls < MaxDraws
       /\ planes' = [planes EXCEPT ![k] = MeshDraw(planes[k])]
  /\ UNCHANGED <<cfgVars, loopVars, pc, window, monitorCount, windowMonitor,
                 contextCurrent, glewState, shaderStage, errLog,
                 closePending, shouldClose, glfwTerminated, exitStatus,
                 thrown>>
  /\ UNCHANGED <<windowSize, closeRequestedAt, glfwInitialized, variant,
                 meshVars, matVars, projVars>>

\* MeshPlane objects on their own: one of them is destroyed
\* (main.cpp:125-130)
ObjectDestroy ==
  /\ pc = "object"
  /\ \E k \in DOMAIN planes :
       /\ ~planes[k].destroyed
       /\ planes' = [planes EXCEPT ![k] = MeshDestroy(planes[k])]
  /\ UNCHANGED <<cfgVars, loopVars, pc, window, monitorCount, windowMonitor,
                 contextCurrent, glewState, shaderStage, errLog,
                 closePending, shouldClose, glfwTerminated, exitStatus,
                 thrown>>
  /\ UNCHANGED <<windowSize, closeRequestedAt, glfwInitialized, variant,
                 meshVars, matVars, projVars>>

\* glfwMakeContextCurrent(nullptr) (main.cpp:377, 909)
ReleaseContext ==
  /\ pc = "releaseContext"
  /\ contextCurrent' = FALSE
  /\ pc' = "destroyWindow"
  /\ UNCHANGED <<cfgVars, loopVars, window, monitorCount, windowMonitor,
                 glewState, shaderStage, errLog, planes, closePending,
                 shouldClose, glfwTerminated, exitStatus, thrown>>
  /\ UNCHANGED <<windowSize, closeRequestedAt, glfwInitialized, variant,
                 meshVars, matVars, projVars>>

\* glfwDestroyWindow(m_window) (main.cpp:378, 910)
DestroyWindow ==
  /\ pc = "destroyWindow"
  /\ window' = "destroyed"
  /\ closePending' = FALSE
  /\ pc' = "terminate"
  /\ UNCHANGED <<cfgVars, loopVars, monitorCount, windowMonitor,
                 contextCurrent, glewState, shaderStage, errLog, planes,
                 shouldClose, glfwTerminated, exitStatus, thrown>>
  /\ UNCHANGED <<windowSize, closeRequestedAt, glfwInitialized, variant,
                 meshVars, matVars, projVars>>

\* glfwTerminate(); return 0 (main.cpp:379-381, 911-913)
Terminate ==
  /\ pc = "terminate"
  /\ glfwTerminated' = TRUE
  /\ exitStatus' = 0
  /\ pc' = "exited"
  /\ UNCHANGED <<cfgVars, loopVars, window, monitorCount, windowMonitor,
                 contextCurrent, glewState, shaderStage, errLog, planes,
                 closePending, shouldClose, thrown>>
  /\ UNCHANGED <<windowSize, closeRequestedAt, glfwInitialized, variant,
                 meshVars, matVars, projVars>>

(***************************************************************************)
(* Matrix handling functions (main.cpp:583-667).                           *)
(*                                                                         *)
(* A float is an integer that has at most MantBits significant bits; every *)
(* float addition and multiplication rounds its exact result to the        *)
(* nearest such number, ties to even, as IEEE 754 arithmetic does with 24  *)
(* bits.  A matrix is float[16], position x of the array at index x + 1.   *)
(***************************************************************************)
\* the spacing of the floats around a magnitude a >= 0
RECURSIVE Ulp(_)
Ulp(a) == IF a < 2 ^ MantBits THEN 1 ELSE 2 * Ulp(a \div 2)

\* the float nearest to the exact value x
Round(x) ==
  LET a == IF x < 0 THEN -x ELSE x
      u == Ulp(a)
      q == a \div u
      r == a % u
      m == IF 2 * r > u \/ (2 * r = u /\ q % 2 = 1) THEN q + 1 ELSE q
  IN  IF x < 0 THEN -(m * u) ELSE m * u

\* float + float and float * float
FAdd(a, b) == Round(a + b)
FMul(a, b) == Round(a * b)

\* result[i * 4 + j] = 0, then += a[i * 4 + k] * b[k * 4 + j] for k = 0..3
\* (main.cpp:587-590)
Cell(a, b, i, j) ==
  LET term(k) == FMul(a[i * 4 + k + 1], b[k * 4 + j + 1])
  IN  FAdd(FAdd(FAdd(FAdd(0, term(0)), term(1)), term(2)), term(3))

\* multiplyMatrices(const float a[16], const float b[16], float result[16]),
\* result being an array apart from a and b (main.cpp:584-593)
Multiply(a, b) == [x \in 1..16 |-> Cell(a, b, (x - 1) \div 4, (x - 1) % 4)]

\* createTranslationMatrix (main.cpp:650-667)
createTranslationMatrix(x, y, z) ==
  << 1, 0, 0, 0,
     0, 1, 0, 0,
     0, 0, 1, 0,
     x, y, z, 1 >>

\* createRotationMatrixX for an angle whose cosine and sine are the floats
\* c and s (main.cpp:610-627)
createRotationMatrixX(c, s) ==
  << 1, 0, 0, 0,
     0, c, -s, 0,
     0, s, c, 0,
     0, 0, 0, 1 >>

\* createRotationMatrixY for an angle whose cosine and sine are the floats
\* c and s (main.cpp:630-647)
createRotationMatrixY(c, s) ==
  << c, 0, s, 0,
     0, 1, 0, 0,
     -s, 0, c, 0,
     0, 0, 0, 1 >>

\* the operands of the product exchanged
ChainProduct_Swapped(res, m) == Multiply(m, res)

\* the product the chain forms in one iteration:
\* multiplyMatrices(result, matrices[i], temp) (main.cpp:602)
ChainProduct(res, m) == Multiply(res, m)

\* result[i] = matrices[0][i] (main.cpp:597-599)
ChainCopy ==
  /\ cpc = "copy"
  /\ result' = matrices[1]
  /\ chainI' = 1
  /\ cpc' = "loop"
  /\ UNCHANGED <<matrices, matrices0>>
  /\ UNCHANGED <<mainVars, meshVars, projVars>>

\* one iteration of the loop over matrices[1..] (main.cpp:600-606)
ChainStep ==
  /\ cpc = "loop"
  /\ chainI < Len(matrices)
  /\ result' = ChainProduct(result, matrices[chainI + 1])
  /\ chainI' = chainI + 1
  /\ UNCHANGED <<cpc, matrices, matrices0>>
  /\ UNCHANGED <<mainVars, meshVars, projVars>>

\* the loop ends and the function returns (main.cpp:600, 607)
ChainEnd ==
  /\ cpc = "loop"
  /\ chainI >= Len(matrices)
  /\ cpc' = "done"
  /\ UNCHANGED <<matrices, matrices0, result, chainI>>
  /\ UNCHANGED <<mainVars, meshVars, projVars>>

(***************************************************************************)
(* createProjectionMatrix (main.cpp:669-688).                              *)
(*                                                                         *)
(* A float is kept as an exact fraction [n, d] and an angle as a fraction  *)
(* of Pi; the rounding of the float arithmetic and of the float Pi is not  *)
(* modelled.                                                               *)
(***************************************************************************)
QAdd(a, b) == Frac(a.n * b.d + b.n * a.d, a.d * b.d)
QSub(a, b) == Frac(a.n * b.d - b.n * a.d, a.d * b.d)
QMul(a, b) == Frac(a.n * b.n, a.d * b.d)
QDiv(a, b) == Frac(a.n * b.d, a.d * b.n)
QEq(a, b) == a.n * b.d = b.n * a.d

\* degrees * Pi / 180.0f, as a fraction of Pi (main.cpp:579-581)
degreesToRadians(degrees) == Frac(degrees, 180)

\* tan of the angle a * Pi, for the angles whose tangent is rational
Tan(a) ==
  CASE QEq(a, Frac(1, 4)) -> Frac(1, 1)
    [] QEq(a, Frac(3, 4)) -> Frac(-1, 1)

\* the matrix with the entries 11 and 14 of the source exchanged
createProjectionMatrix_Transposed(fieldOfView, aspectRatio, nearPlane, farPlane) ==
  LET f == QDiv(Frac(1, 1), Tan(QDiv(degreesToRadians(fieldOfView), Frac(2, 1))))
      O == Frac(0, 1)
  IN  << QDiv(f, aspectRatio), O, O, O,
         O, f, O, O,
         O, O, QDiv(QAdd(farPlane, nearPlane), QSub(nearPlane, farPlane)),
               QDiv(QMul(QMul(Frac(2, 1), farPlane), nearPlane),
                    QSub(nearPlane, farPlane)),
         O, O, Frac(-1, 1), O >>

\* createProjectionMatrix: result[0..15] is the tuple's 1..16
\* (main.cpp:670-688)
createProjectionMatrix(fieldOfView, aspectRatio, nearPlane, farPlane) ==
  LET f == QDiv(Frac(1, 1), Tan(QDiv(degreesToRadians(fieldOfView), Frac(2, 1))))
      O == Frac(0, 1)
  IN  << QDiv(f, aspectRatio), O, O, O,
         O, f, O, O,
         O, O, QDiv(QAdd(farPlane, nearPlane), QSub(nearPlane, farPlane)),
               Frac(-1, 1),
         O, O, QDiv(QMul(QMul(Frac(2, 1), farPlane), nearPlane),
                    QSub(nearPlane, farPlane)), O >>

\* the call: the sixteen entries are assigned
ProjectionCall ==
  /\ ppc = "call"
  /\ projection' = createProjectionMatrix(projArgs.fieldOfView,
                                          projArgs.aspectRatio,
                                          projArgs.nearPlane,
                                          projArgs.farPlane)
  /\ ppc' = "done"
  /\ UNCHANGED <<projArgs, mainVars, meshVars, matVars>>

(***************************************************************************)
(* Specifications.                                                         *)
(***************************************************************************)
\* the two programs main.cpp holds: lines 1-382 and lines 383-914
Variants == {"plane", "room"}

\* main() before its first statement, for the command line a
MainStart(a) ==
  /\ args = a
  /\ argi = 1
  /\ fullScreenDisplay = DefaultConfig.fullScreenDisplay
  /\ width = DefaultConfig.width
  /\ height = DefaultConfig.height
  /\ fps = DefaultConfig.fps
  /\ pc = "parse"
  /\ window = "none"
  /\ monitorCount = -1
  /\ windowMonitor = <<>>
  /\ contextCurrent = FALSE
  /\ glewState = "uninit"
  /\ shaderStage = 0
  /\ errLog = <<>>
  /\ planes = <<>>
  /\ count = 0
  /\ p = 0
  /\ closePending = FALSE
  /\ shouldClose = FALSE
  /\ glfwTerminated = FALSE
  /\ exitStatus = -1
  /\ thrown = "none"
  /\ frameLog = <<>>
  /\ completeFrames = 0
  /\ closeChecks = 0
  /\ windowSize = <<0, 0>>
  /\ closeRequestedAt = "never"
  /\ glfwInitialized = FALSE

\* createProjectionMatrix is not being called
ProjIdle ==
  /\ ppc = "idle"
  /\ projArgs = [fieldOfView |-> 90, aspectRatio |-> Frac(1, 1),
                 nearPlane |-> Frac(1, 10), farPlane |-> Frac(100, 1)]
  /\ projection = [x \in 1..16 |-> Frac(0, 1)]

\* no MeshPlane constructor is running
MeshIdle ==
  /\ mpc = "idle"
  /\ mScale = 1
  /\ mNumTriangles = 0
  /\ mColor = <<2, 2, 2>>
  /\ mQ = 0
  /\ mI = 0
  /\ mJ = 0
  /\ mRands = <<>>
  /\ vertexBufferData = <<>>
  /\ colorBufferData = <<>>

\* no matrix chain is running
ChainIdle ==
  /\ cpc = "idle"
  /\ matrices = <<>>
  /\ matrices0 = <<>>
  /\ result = <<>>
  /\ chainI = 0

\* the command lines of the runs of the whole program
MainArgLists ==
  { <<>>,
    <<FlagFullScreenDisplay, ArgMinus1>>,
    <<FlagFullScreenDisplay, ArgZero>>,
    <<FlagFullScreenDisplay, ArgOne>>,
    <<FlagFullScreenDisplay, ArgFive>>,
    <<FlagFullScreenDisplay, ArgMinus1, FlagWidth, Arg800, FlagHeight, Arg600,
      FlagFps, Arg60>>,
    <<FlagWidth, Arg800>>,
    <<FlagHeight, Arg600, FlagFullScreenDisplay>>,
    <<FlagFullScreenDisplay, ArgWord>>,
    <<FlagWidth, ArgHuge>>,
    <<FlagFps, FlagFps>> }

Init ==
  /\ \E a \in MainArgLists : MainStart(a)
  /\ variant \in Variants
  /\ MeshIdle
  /\ ChainIdle
  /\ ProjIdle

Next ==
  \/ ParseArg
  \/ ParseEnd
  \/ CreateWindow
  \/ SelectMonitor
  \/ SetWindowMonitor
  \/ MakeContextCurrent
  \/ GlewInit
  \/ BuildShader
  \/ MakePlanes
  \/ LoopTest
  \/ Clear
  \/ DrawPlane
  \/ SwapBuffers
  \/ Finish
  \/ PollEvents
  \/ CheckClose
  \/ RequestClose
  \/ Report
  \/ ClearPlanes
  \/ ReleaseContext
  \/ DestroyWindow
  \/ Terminate

\* the whole program
Spec == Init /\ [][Next]_vars

\* the argument loop of main() alone, over every command line of at most
\* MaxArgs arguments
InitArgs ==
  /\ \E a \in SeqUpTo(Tokens, MaxArgs) : MainStart(a)
  /\ variant \in Variants
  /\ MeshIdle
  /\ ChainIdle
  /\ ProjIdle

NextArgs == ParseArg \/ ParseEnd

SpecArgs == InitArgs /\ [][NextArgs]_vars

\* the MeshPlane constructor alone, over its arguments
MeshScales == {1, 5}
MeshColors == {<<2, 2, 2>>, <<2, 1, 1>>}
\* the calls explored: each scale and each colour occurs; the constructor
\* uses scale for the positions only and color for the colours only
MeshCalls == {c \in MeshScales \X MeshColors :
                c = <<1, <<2, 2, 2>> >> \/ c = <<5, <<2, 1, 1>> >>}

InitMesh ==
  /\ MainStart(<<>>)
  /\ variant = "plane"
  /\ ChainIdle
  /\ ProjIdle
  /\ mpc = "start"
  /\ \E c \in MeshCalls : mScale = c[1] /\ mColor = c[2]
  /\ mNumTriangles \in 0..MaxTriangles
  /\ mQ = 0
  /\ mI = 0
  /\ mJ = 0
  /\ mRands = <<>>
  /\ vertexBufferData = <<>>
  /\ colorBufferData = <<>>

NextMesh == MeshBegin \/ MeshQuad \/ MeshEnd

SpecMesh == InitMesh /\ [][NextMesh]_vars

\* the matrix chain alone, over lists of two or three matrices
IdentityRotation == createRotationMatrixX(1, 0)

MatrixPool ==
  { IdentityRotation,
    createRotationMatrixX(0, 1),
    createRotationMatrixY(0, 1),
    createTranslationMatrix(1, 0, 0),
    createTranslationMatrix(8, 0, 0),
    createTranslationMatrix(0, 5, 7) }

InitMatrix ==
  /\ MainStart(<<>>)
  /\ variant = "room"
  /\ MeshIdle
  /\ ProjIdle
  /\ cpc = "copy"
  /\ matrices \in [1..2 -> MatrixPool] \cup [1..3 -> MatrixPool]
  /\ matrices0 = matrices
  /\ result = [x \in 1..16 |-> 0]
  /\ chainI = 0

NextMatrix == ChainCopy \/ ChainStep \/ ChainEnd

SpecMatrix == InitMatrix /\ [][NextMatrix]_vars

\* createProjectionMatrix alone, over its arguments: the fields of view
\* whose half angle has a rational tangent, aspect ratios 1, 16/9 and 1/2,
\* and near planes in front of far planes
ProjFields == {90, 270}
ProjAspects == {Frac(1, 1), Frac(16, 9), Frac(1, 2)}
ProjNears == {Frac(1, 10), Frac(1, 2), Frac(1, 1)}
ProjFars == {Frac(100, 1), Frac(10, 1), Frac(2, 1)}

InitProjection ==
  /\ MainStart(<<>>)
  /\ variant = "room"
  /\ MeshIdle
  /\ ChainIdle
  /\ ppc = "call"
  /\ projArgs \in [fieldOfView : ProjFields, aspectRatio : ProjAspects,
                    nearPlane : ProjNears, farPlane : ProjFars]
  /\ projection = [x \in 1..16 |-> Frac(0, 1)]

NextProjection == ProjectionCall

SpecProjection == InitProjection /\ [][NextProjection]_vars

\* two MeshPlane objects on their own, for every target triangle count: any
\* number of draw() calls on each, and its destruction at any point
InitObject ==
  /\ args = <<>>
  /\ argi = 1
  /\ fullScreenDisplay = DefaultConfig.fullScreenDisplay
  /\ width = DefaultConfig.width
  /\ height = DefaultConfig.height
  /\ fps = DefaultConfig.fps
  /\ pc = "object"
  /\ window = "created"
  /\ windowSize = <<DefaultConfig.width, DefaultConfig.height>>
  /\ monitorCount = -1
  /\ windowMonitor = <<>>
  /\ contextCurrent = TRUE
  /\ glewState = "ok"
  /\ shaderStage = 3
  /\ errLog = <<>>
  /\ \E t, u \in 0..MaxTriangles : planes = <<NewMeshPlane(t), NewMeshPlane(u)>>
  /\ count = 0
  /\ p = 0
  /\ frameLog = <<>>
  /\ completeFrames = 0
  /\ closeChecks = 0
  /\ closePending = FALSE
  /\ shouldClose = FALSE
  /\ glfwTerminated = FALSE
  /\ exitStatus = -1
  /\ thrown = "none"
  /\ closeRequestedAt = "never"
  /\ glfwInitialized = TRUE
  /\ variant \in Variants
  /\ MeshIdle
  /\ ChainIdle
  /\ ProjIdle

NextObject == ObjectDraw \/ ObjectDestroy

SpecObject == InitObject /\ [][NextObject]_vars

(***************************************************************************)
(* Properties.                                                             *)
(***************************************************************************)
\* the statements of main() that follow the render loop
AfterLoop ==
  {"report", "clearPlanes", "releaseContext", "destroyWindow", "terminate"}

\* argument k is the flag f and has a following argument
Given(f, k) == k + 1 <= Len(args) /\ args[k] = f

\* the flag f occurs with a following argument
Supplied(f) == \E k \in 1..Len(args) : Given(f, k)

\* C1: the exit status identifies the outcome of main: 1 exactly when the
\* window creation failed, 2 exactly when an index >= 0 was requested and no
\* monitor was enumerated, 3 exactly when the requested index >= 0 is at
\* least the nonzero monitor count, 4 exactly when the loader failed, 0 only
\* when the render loop ended through a close request; an uncaught exception
\* returns no status.
C1_ExitStatusIdentifiesOutcome ==
  /\ pc = "exited" =>
       /\ exitStatus \in 0..4
       /\ exitStatus = 1 <=> window = "failed"
       /\ exitStatus = 2 <=> (fullScreenDisplay >= 0 /\ monitorCount = 0)
       /\ exitStatus = 3 <=> (/\ fullScreenDisplay >= 0
                              /\ monitorCount > 0
                              /\ fullScreenDisplay >= monitorCount)
       /\ exitStatus = 4 <=> glewState = "failed"
       /\ exitStatus = 0 => shouldClose
  /\ pc # "exited" => exitStatus = -1

\* C2: when the requested index is not smaller than the number of monitors
\* present (one monitor at least), the program exits with status 3 and no
\* window was created at any point of the run.
C2_BadIndexExitsWithoutWindow ==
  (/\ pc = "exited"
   /\ monitorCount >= 1
   /\ fullScreenDisplay >= monitorCount)
    => (exitStatus = 3 /\ window = "none")

\* the value the last occurrence of flag f with a following argument gives,
\* or the default
LastGiven(f) == CHOOSE k \in 1..Len(args) :
                  Given(f, k) /\ \A j \in 1..Len(args) : Given(f, j) => j <= k

C4_NoFlagMeansWindowed ==
  ~Supplied(FlagFullScreenDisplay) =>
    /\ pc # "parse" => fullScreenDisplay = -1
    /\ monitorCount = -1
    /\ windowMonitor = <<>>
    /\ exitStatus \notin {2, 3}

\* C5: when --width is not given the window is created 7864 pixels wide,
\* and when --height is not given 4320 pixels high.
C5_DefaultWindowSize ==
  window \in {"created", "destroyed"} =>
    /\ ~Supplied(FlagWidth) => windowSize[1] = 7864
    /\ ~Supplied(FlagHeight) => windowSize[2] = 4320

\* C6: for every numTriangles t >= 2 the constructor builds a grid of
\* q = max(1, floor(sqrt(floor(t / 2)))) quads per edge and leaves 6 * q * q
\* vertices, 18 * q * q position floats, and as many colour floats.
C6_GridSize ==
  (mpc = "done" /\ mNumTriangles >= 2) =>
    /\ mQ >= 1
    /\ mQ * mQ <= mNumTriangles \div 2
    /\ (mQ + 1) * (mQ + 1) > mNumTriangles \div 2
    /\ Len(vertexBufferData) = 18 * mQ * mQ
    /\ Len(vertexBufferData) = 3 * (6 * mQ * mQ)
    /\ Len(colorBufferData) = Len(vertexBufferData)

\* C6, its case: a grid of more than one quad per edge is finished
C6_Witness ==
  /\ mpc = "done"
  /\ mNumTriangles = 9
  /\ mQ = 2
  /\ Len(vertexBufferData) = 72

\* the triangles the constructor emitted: three vertices of three floats
Triangles == Len(vertexBufferData) \div 9

\* C7 as claimed: for every target t the triangles emitted, 2 * q * q, are
\* at most t, 2 * (q + 1) * (q + 1) is greater than t, and q is at least 1.
C7_NeverExceedsTarget ==
  mpc = "done" =>
    /\ mQ >= 1
    /\ Triangles = 2 * mQ * mQ
    /\ Triangles <= mNumTriangles
    /\ 2 * (mQ + 1) * (mQ + 1) > mNumTriangles

\* C7 as amended: for every target t >= 2 the triangles emitted, 2 * q * q,
\* are at most t; for t < 2 the grid is one quad, two triangles, more than
\* the target; in every case 2 * (q + 1) * (q + 1) > t and q >= 1.
C7_LargestGridFromTwo ==
  mpc = "done" =>
    /\ mQ >= 1
    /\ Triangles = 2 * mQ * mQ
    /\ 2 * (mQ + 1) * (mQ + 1) > mNumTriangles
    /\ mNumTriangles >= 2 => Triangles <= mNumTriangles
    /\ mNumTriangles < 2 => (mQ = 1 /\ Triangles = 2)

\* C7, its cases: a target below two, and a target just below the next grid
C7_Witness ==
  /\ mpc = "done"
  /\ \/ mNumTriangles = 1 /\ Triangles = 2
     \/ mNumTriangles = 17 /\ mQ = 2

\* the pairwise product in exact arithmetic
CellExact(a, b, i, j) ==
  LET term(k) == a[i * 4 + k + 1] * b[k * 4 + j + 1]
  IN  term(0) + term(1) + term(2) + term(3)

MultiplyExact(a, b) ==
  [x \in 1..16 |-> CellExact(a, b, (x - 1) \div 4, (x - 1) % 4)]

\* no sum and no product of either grouping of a, b, c is rounded
Unrounded(a, b, c) ==
  /\ Multiply(a, b) = MultiplyExact(a, b)
  /\ Multiply(b, c) = MultiplyExact(b, c)
  /\ Multiply(Multiply(a, b), c) = MultiplyExact(MultiplyExact(a, b), c)
  /\ Multiply(a, Multiply(b, c)) = MultiplyExact(a, MultiplyExact(b, c))

IsTranslation(m) ==
  \E x, y, z \in {0, 1, 5, 7, 8} : m = createTranslationMatrix(x, y, z)

C9_LoopEndsOnlyOnClose ==
  pc \in AfterLoop => shouldClose

\* C10: in a run with --fullScreenDisplay -1 the window is never
\* re-associated with a monitor; a complete frame (clear, uniform and draw of
\* every plane, swap) precedes the first close check, even if the close was
\* requested before the loop; past the loop after a close, count >= 1.
C10_WindowedFrameBeforeClose ==
  (pc # "parse" /\ fullScreenDisplay = -1) =>
    /\ windowMonitor = <<>>
    /\ monitorCount = -1
    /\ pc = "checkClose" => completeFrames >= 1
    /\ closeChecks >= 1 => completeFrames >= 1
    /\ (pc \in AfterLoop /\ shouldClose) => (count >= 1 /\ completeFrames >= 1)

\* C10, its case: the close was requested before the loop started, and the
\* run has left the loop after its first frame
C10_Witness ==
  /\ fullScreenDisplay = -1
  /\ windowSize = <<800, 600>>
  /\ closeRequestedAt = "makePlanes"
  /\ pc = "report"
  /\ shouldClose
  /\ closeChecks = 1
  /\ completeFrames = 1
  /\ count = 1

\* the argument s is not a number for the flag f: std::stod does not accept
\* it after --fps, std::stoi does not accept it after another flag
Rejected(f, s) == IF f = FlagFps THEN ~stod(s).ok ELSE ~stoi(s).ok

\* some argument of the command line a is a recognised flag and the argument
\* that follows it does not convert
HasBadValue(a) ==
  \E k \in 1..Len(a) :
    /\ a[k] \in Flags
    /\ k + 1 <= Len(a)
    /\ Rejected(a[k], a[k + 1])

\* the exceptions std::stoi and std::stod throw
ConversionErrors == {"invalid_argument", "out_of_range"}

\* C11: when the argument that follows a recognised flag does not convert to
\* a number, the argument loop ends in an uncaught conversion exception and
\* the process terminates there: glfwInit was not called, no window exists,
\* no frame was drawn and main returned none of its statuses 0 to 4.
C11_BadValueTerminates ==
  /\ pc = "parse" => ~glfwInitialized /\ window = "none"
  /\ (HasBadValue(args) /\ pc # "parse") =>
       /\ pc = "terminated"
       /\ thrown \in ConversionErrors
       /\ ~glfwInitialized
       /\ window = "none"
       /\ ~contextCurrent
       /\ planes = <<>>
       /\ frameLog = <<>>
       /\ completeFrames = 0
       /\ exitStatus = -1

\* C11 witness: --width followed by 3000000000 ended main in out_of_range
C11_Witness ==
  /\ args = <<FlagWidth, ArgHuge>>
  /\ pc = "terminated"
  /\ thrown = "out_of_range"
  /\ argi = 2

\* the messages of the three shader build checks
ShaderMessages == {ShaderMessage(k) : k \in 0..2}

\* a shader build check has written the driver's log to std::cerr
ShaderFailed == \E k \in 1..Len(errLog) : errLog[k] = "driver log"

\* C12: when a shader compilation or the program link fails, the check has
\* written the driver's log to std::cerr and thrown; nothing catches it, so
\* main is terminated with the message of the failed check, no status is
\* returned, no mesh was constructed, the render loop was not entered and no
\* frame was drawn.  Meshes and frames exist only after all three checks
\* passed.
C12_ShaderFailureTerminates ==
  /\ ShaderFailed =>
       /\ pc = "terminated"
       /\ shaderStage < 3
       /\ thrown = ShaderMessage(shaderStage)
       /\ errLog[Len(errLog)] = "driver log"
       /\ planes = <<>>
       /\ count = 0
       /\ frameLog = <<>>
       /\ completeFrames = 0
       /\ closeChecks = 0
       /\ exitStatus = -1
  /\ thrown \in ShaderMessages => ShaderFailed
  /\ (planes # <<>> \/ completeFrames > 0 \/ frameLog # <<>>) => shaderStage = 3

\* C12 witness: the vertex and the fragment shader compiled, the link failed
C12_Witness ==
  /\ pc = "terminated"
  /\ shaderStage = 2
  /\ thrown = "Shader program link failed."
  /\ ShaderFailed
  /\ contextCurrent

\* the entries of a projection matrix that are zero for every argument
ProjZeroEntries == (1..16) \ {1, 6, 11, 12, 15}

\* C13: createProjectionMatrix for a field of view of 90 degrees, aspect
\* ratio 1, near plane 0.1 and far plane 100 yields f = 1 at result[0] and
\* result[5], (100 + 0.1) / (0.1 - 100) = -1001/999 at result[10], -1 at
\* result[11], 2 * 100 * 0.1 / (0.1 - 100) = -200/999 at result[14], and 0
\* at every other entry, result[15] included (exact arithmetic).
C13_StandardPerspective ==
  (/\ ppc = "done"
   /\ projArgs = [fieldOfView |-> 90, aspectRatio |-> Frac(1, 1),
                  nearPlane |-> Frac(1, 10), farPlane |-> Frac(100, 1)])
  => /\ QEq(projection[1], Frac(1, 1))
     /\ QEq(projection[6], Frac(1, 1))
     /\ QEq(projection[11], Frac(-1001, 999))
     /\ QEq(projection[12], Frac(-1, 1))
     /\ QEq(projection[15], Frac(-200, 999))
     /\ \A x \in ProjZeroEntries : QEq(projection[x], Frac(0, 1))

\* C13 witness: the call with 90 degrees, 1, 0.1 and 100 has returned
C13_Witness ==
  /\ ppc = "done"
  /\ projArgs.fieldOfView = 90
  /\ projArgs.aspectRatio = Frac(1, 1)
  /\ projArgs.nearPlane = Frac(1, 10)
  /\ projArgs.farPlane = Frac(100, 1)
  /\ projection[12].n # 0

\* what C14 says of one MeshPlane m
BuffersOnce(m) ==
  /\ m.initialized <=> m.drawCalls > 0
  /\ m.buffersCreated = (IF m.drawCalls > 0 THEN 2 ELSE 0)
  /\ m.bufferUploads = m.buffersCreated
  /\ m.drawCalls > 0 =>
       /\ m.drawsBeforeInit = 0
       /\ m.vertexUploaded = m.vertexFloats
       /\ m.colorUploaded = m.colorFloats
  /\ m.buffersDeleted = (IF m.destroyed /\ m.initialized THEN 2 ELSE 0)

\* C14: the two GPU buffers of a mesh are generated and filled exactly once,
\* in its first draw() and before any glDrawArrays of the mesh; later draws
\* generate none; the destructor deletes the two buffers exactly when the
\* mesh is initialized, so never for a mesh that was never drawn.
C14_BuffersCreatedOnce ==
  \A k \in DOMAIN planes : BuffersOnce(planes[k])

\* C14 witness: one mesh was drawn twice and then destroyed, deleting its
\* two buffers; another was destroyed without ever being drawn
C14_Witness ==
  /\ pc = "object"
  /\ planes[1].drawCalls = 2
  /\ planes[1].destroyed
  /\ planes[1].buffersCreated = 2
  /\ planes[1].buffersDeleted = 2
  /\ planes[2].drawCalls = 0
  /\ planes[2].destroyed
  /\ planes[2].buffersDeleted = 0

\* a is an initial part of b
IsPrefix(a, b) == Len(a) <= Len(b) /\ a = SubSeq(b, 1, Len(a))

\* the statements of the body of the render loop
InBody == {"clear", "draw", "finish", "poll", "checkClose"}

\* a body of the render loop has run to its close check and no other was
\* begun since
BodyEnded == closeChecks > 0 /\ pc \in {"loopTest", "exited"} \cup AfterLoop

\* what ends every frame: swap, blocking wait, poll, close check
FrameTail == <<Op("swap", 0), Op("finish", 0), Op("poll", 0), Op("check", 0)>>

\* the draw calls of the meshes 1..n, one each, in order
RECURSIVE DrawsOnly(_)
DrawsOnly(n) == IF n = 0 THEN <<>> ELSE Append(DrawsOnly(n - 1), Op("draw", n))

\* for the meshes 1..n in order, the uniform of the mesh and then its draw
RECURSIVE UniformThenDraw(_)
UniformThenDraw(n) ==
  IF n = 0 THEN <<>>
  ELSE UniformThenDraw(n - 1) \o <<Op("uniform", n), Op("draw", n)>>

\* a frame with one uniform upload per mesh
PerMeshFrame(n) == <<Op("clear", 0)>> \o UniformThenDraw(n) \o FrameTail

\* a frame with one uniform upload for all the meshes
SharedUniformFrame(n) ==
  <<Op("clear", 0), Op("uniform", 0)>> \o DrawsOnly(n) \o FrameTail

\* the operations of the frame in progress or just ended are those of f, in
\* the order of f
FrameFollows(f) ==
  /\ pc \in InBody => IsPrefix(frameLog, f)
  /\ BodyEnded => frameLog = f

\* C15 as stated: in every iteration of the render loop, in both variants,
\* the order is clear, then for each mesh the upload of its uniform followed
\* by exactly one draw of it, then swap, blocking wait, poll and close check.
C15_UniformPerMeshEveryFrame == FrameFollows(PerMeshFrame(Len(planes)))

\* C15: in every iteration of the render loop the order is clear; then, in
\* the room variant, for each mesh in order the upload of its uniform
\* followed by exactly one draw of it, and in the plane variant one upload
\* of the shared uniform followed by exactly one draw of each mesh in order;
\* then swap, blocking wait, poll and close check.  No mesh is drawn twice
\* or skipped in a frame and nothing is drawn after the swap.
C15_FrameOrder ==
  FrameFollows(IF variant = "room" THEN PerMeshFrame(Len(planes))
               ELSE SharedUniformFrame(Len(planes)))

\* C15 witness: the second body of the plane variant's loop has reached its
\* blocking wait with every plane drawn
C15_Witness ==
  /\ variant = "plane"
  /\ count = 2
  /\ pc = "finish"
  /\ Len(frameLog) = 2 + NX * NY + 1
  /\ \A k \in DOMAIN planes : planes[k].drawCalls = 2

\* the quads the constructor has emitted so far
QuadsEmitted == Len(colorBufferData) \div 18

\* the colour float of component c (1..3) of vertex v (0..5) of quad k
ColorAt(k, v, c) == colorBufferData[(k - 1) * 18 + v * 3 + c]

\* the float x equals 0.5 + r * 0.5 / RAND_MAX times the colour component
\* col, which is given in halves
IsShaded(x, r, col) == x.n * (2 * RandMax) * 2 = x.d * (RandMax + r) * col

\* the six vertices of quad k carry one colour triple, the base colour times
\* the brightness of the k-th call of rand(), which lies in [0.5, 1.0]
QuadShaded(k) ==
  /\ \A v \in 0..5 : \A c \in 1..3 :
       /\ ColorAt(k, v, c) = ColorAt(k, 0, c)
       /\ IsShaded(ColorAt(k, v, c), mRands[k], mColor[c])
  /\ 2 * Brightness(mRands[k]).n >= Brightness(mRands[k]).d
  /\ Brightness(mRands[k]).n <= Brightness(mRands[k]).d

\* the colour vector and the position vector have 18 floats for each call
\* of rand(), the finished mesh has q*q of them, and the quad emitted last
\* is shaded by its own call
ColorsFollowQuads ==
  /\ Len(colorBufferData) = 18 * Len(mRands)
  /\ Len(colorBufferData) = Len(vertexBufferData)
  /\ mpc = "done" => Len(mRands) = mQ * mQ
  /\ mRands # <<>> => QuadShaded(Len(mRands))

\* what was pushed stays: the constructor only appends, and does not change
\* its arguments
OnlyAppends ==
  /\ IsPrefix(colorBufferData, colorBufferData')
  /\ IsPrefix(vertexBufferData, vertexBufferData')
  /\ IsPrefix(mRands, mRands')
  /\ UNCHANGED <<mScale, mColor, mNumTriangles>>
  /\ mpc = "loop" => mQ' = mQ

\* C16: the six vertices of a quad carry one colour triple, the brightness
\* of the quad times the base colour; rand() is called once per quad, so q*q
\* times per mesh, and the brightness it gives lies in [0.5, 1.0]; the
\* colour vector grows with the position vector, 18 floats per quad, so the
\* triples are in the quad order of the positions.  Every quad is checked
\* when it is emitted and is never changed afterwards.
C16_OneBrightnessPerQuad ==
  /\ []ColorsFollowQuads
  /\ [][OnlyAppends]_vars

\* C16 witness: a grid of four quads is finished with rand() having returned
\* 0 for the first quad and RAND_MAX for the last, on the colour (1, 0.5, 0.5)
C16_Witness ==
  /\ mpc = "done"
  /\ mQ = 2
  /\ mColor = <<2, 1, 1>>
  /\ mRands[1] = 0
  /\ mRands[4] = RandMax
  /\ ColorAt(1, 5, 1) # ColorAt(4, 5, 1)

\* the quads whose positions the constructor has emitted so far
QuadsPlaced == Len(vertexBufferData) \div 18

\* the loop variables i and j of quad k, the quads being numbered from 1 in
\* the order of the loops
QuadI(k) == (k - 1) \div mQ
QuadJ(k) == (k - 1) % mQ

\* coordinate c (1 = x, 2 = y, 3 = z) of vertex v (0..5) of quad k
CoordAt(k, v, c) == vertexBufferData[(k - 1) * 18 + v * 3 + c]

\* the float x is the grid line m: x = -s + m * 2s / q
OnLine(x, m) == x.n * mQ = x.d * (2 * mScale * m - mScale * mQ)

\* the float x lies in [-s, s]
InSquare(x) == -mScale * x.d <= x.n /\ x.n <= mScale * x.d

\* which side of its cell a coordinate is on: 0 the lower grid line of the
\* cell, 1 the upper, 2 neither
Side(x, m) == IF OnLine(x, m) THEN 0 ELSE IF OnLine(x, m + 1) THEN 1 ELSE 2

\* the corner of the cell of quad k that vertex v is at
CornerOf(k, v) ==
  <<Side(CoordAt(k, v, 1), QuadI(k)), Side(CoordAt(k, v, 2), QuadJ(k))>>

\* the corners of triangle t (0 or 1) of quad k
TriangleCorners(k, t) == {CornerOf(k, v) : v \in (3 * t)..(3 * t + 2)}

\* the six vertices of quad k are two triangles on the corners of its cell
QuadOnCell(k) ==
  /\ \A v \in 0..5 :
       /\ CoordAt(k, v, 3).n = 0
       /\ InSquare(CoordAt(k, v, 1))
       /\ InSquare(CoordAt(k, v, 2))
  /\ TriangleCorners(k, 0) \cup TriangleCorners(k, 1) = {0, 1} \X {0, 1}
  /\ Cardinality(TriangleCorners(k, 0)) = 3
  /\ Cardinality(TriangleCorners(k, 1)) = 3
  /\ LET shared == TriangleCorners(k, 0) \cap TriangleCorners(k, 1)
     IN  /\ Cardinality(shared) = 2
         /\ \A a, b \in shared : a # b => a[1] # b[1] /\ a[2] # b[2]

\* the quad emitted last is on its cell, and the finished mesh has one quad
\* for each cell of the grid whose lines run from -s to s
GridFollowsQuads ==
  /\ Len(vertexBufferData) = 18 * QuadsPlaced
  /\ QuadsPlaced > 0 => QuadOnCell(QuadsPlaced)
  /\ mpc = "done" =>
       /\ QuadsPlaced = mQ * mQ
       /\ \A i, j \in 0..(mQ - 1) :
            \E k \in 1..QuadsPlaced : QuadI(k) = i /\ QuadJ(k) = j
       /\ OnLine(Frac(-mScale, 1), 0)
       /\ OnLine(Frac(mScale, 1), mQ)

\* C17: for a scale s > 0 and a grid of q quads per edge, the six vertices of
\* quad (i, j) have z = 0 and lie on the corners of the rectangle
\* [-s + i*2s/q, -s + (i+1)*2s/q] x [-s + j*2s/q, -s + (j+1)*2s/q]; they form
\* two triangles of three distinct corners each that share the two corners
\* of one diagonal and together use all four corners; every coordinate lies
\* in [-s, s]; and the finished mesh has exactly one quad for each of the
\* q*q cells of the grid, whose lines run from -s to s, so the rectangles
\* tile the square without gap or overlap.  Every quad is checked when it
\* is emitted, one at a time, and is never changed afterwards.
C17_QuadsTileTheSquare ==
  /\ []GridFollowsQuads
  /\ [][OnlyAppends /\ (mpc = "loop" => QuadsPlaced' <= QuadsPlaced + 1)]_vars

\* C17 witness: a grid of three quads per edge of scale 5 is finished; the
\* last quad reaches the corner (5, 5) of the square
C17_Witness ==
  /\ mpc = "done"
  /\ mQ = 3
  /\ mScale = 5
  /\ QuadI(9) = 2
  /\ QuadJ(9) = 2
  /\ CoordAt(9, 3, 1) = Frac(15, 3)
  /\ CoordAt(9, 3, 2) = Frac(15, 3)

\* the vertices a mesh stores: three position floats each
StoredVertices(m) == m.vertexFloats \div 3

\* C18: the count every draw call hands to glDrawArrays is the number of
\* vertices the mesh stores, the length of its position vector divided by 3,
\* so no vertex beyond the uploaded buffers is drawn.
C18_DrawCountIsVertexCount ==
  \A k \in DOMAIN planes :
    planes[k].drawCalls > 0 =>
      /\ planes[k].lastDrawCount = StoredVertices(planes[k])
      /\ 3 * planes[k].lastDrawCount <= planes[k].vertexUploaded

\* the statements of main() from the first shader call to planes.clear():
\* every shader, buffer and draw operation is issued at one of them
GpuStatements ==
  {"shaders", "makePlanes", "loopTest", "report", "clearPlanes"} \cup InBody

\* a shader, buffer or draw operation has been issued
GpuUsed ==
  \/ shaderStage > 0
  \/ frameLog # <<>>
  \/ \E k \in DOMAIN planes :
       planes[k].buffersCreated > 0 \/ planes[k].buffersDeleted > 0

\* every mesh is destroyed, its buffers deleted if it had any
AllMeshesDestroyed ==
  \A k \in DOMAIN planes :
    /\ planes[k].destroyed
    /\ planes[k].buffersDeleted = planes[k].buffersCreated

\* the state part of C19
ContextCoversGpuWork ==
  /\ pc \in GpuStatements =>
       contextCurrent /\ glewState = "ok" /\ window = "created"
  /\ GpuUsed => glewState = "ok"
  /\ (GpuUsed /\ ~contextCurrent) => AllMeshesDestroyed
  /\ window = "destroyed" => ~contextCurrent /\ AllMeshesDestroyed
  /\ glfwTerminated =>
       /\ window = "destroyed"
       /\ ~contextCurrent
       /\ AllMeshesDestroyed
       /\ pc = "exited"
       /\ exitStatus = 0

\* C19: shader, buffer and draw operations are issued only while the
\* window's context is current and after the loader was initialised; when
\* main leaves the render loop every mesh's buffers are deleted before the
\* context is released, the context is released before the window is
\* destroyed, and glfwTerminate comes last: after it main does nothing more.
C19_GpuOnlyWithContext ==
  /\ []ContextCoversGpuWork
  /\ [][~glfwTerminated]_vars

\* C19 witness: the window was closed by the user and main has returned 0
\* after deleting the buffers of every plane and terminating the library
C19_Witness ==
  /\ glfwTerminated
  /\ exitStatus = 0
  /\ shouldClose
  /\ closeRequestedAt # "never"
  /\ planes # <<>>
  /\ \A k \in DOMAIN planes : planes[k].buffersDeleted = 2

=============================================================================
